---- MODULE Spec2Model ----
(***************************************************************************)
(* CenterNet configuration records and the centernet_hourglass_coco        *)
(* experiment factory                                                      *)
(* (official/vision/beta/projects/centernet/configs/centernet.py).         *)
(*                                                                         *)
(* Conventions                                                             *)
(*  - An Optional value is a sequence: None is << >>, a present value v is *)
(*    <<v>>.                                                               *)
(*  - A float that is only stored is kept as its literal ("0.9"); the      *)
(*    learning rates, which are computed, are integers in units of 1e-6.   *)
(*  - A dict is a function from its keys to its values.                    *)
(*  - A configuration record is a TLA+ record with the declared fields.    *)
(***************************************************************************)
EXTENDS Integers, Sequences, FiniteSets, TLC

\* ---------------------------------------------------------------- bounds
MaxRecords == 2      \* live variables holding a configuration record
MaxOverrides == 2    \* field overrides performed by the calling code
MaxClasses == 1      \* num_classes is overridden with values in 1..MaxClasses

Slots == 1..MaxRecords

None == << >>
Some(v) == <<v>>

\* ------------------------------------------------------- module constants
COCO_INPUT_PATH_BASE == "coco"
COCO_TRAIN_EXAMPLES == 118287
COCO_VAL_EXAMPLES == 5000

\* os.path.join of two relative components (posix)
path_join(a, b) == a \o "/" \o b

\* ------------------------------------------------------ record defaults
\* Each operator is the dataclass-generated constructor called with no
\* argument: the declared default of every field.

CenterNetHead == [heatmap_bias |-> "-2.19", num_inputs |-> 2]

CenterNetDetectionGenerator ==
  [max_detections |-> 100, peak_error |-> "1e-6",
   peak_extract_kernel_size |-> 3, class_offset |-> 1, use_nms |-> FALSE,
   nms_pre_thresh |-> "0.1", nms_thresh |-> "0.4", use_reduction_sum |-> TRUE]

DetectionLoss ==
  [object_center_weight |-> "1.0", offset_weight |-> "1.0",
   scale_weight |-> "0.1"]

\* SegmentationLoss declares no field
SegmentationLoss == [x \in {} |-> TRUE]

Losses ==
  [detection |-> DetectionLoss,
   segmentation |-> SegmentationLoss,
   use_gaussian_bump |-> TRUE,
   use_odapi_gaussian |-> FALSE,
   gaussian_rad |-> -1,
   gaussian_iou |-> "0.7",
   class_offset |-> 1]

Parser ==
  [bgr_ordering |-> TRUE, aug_rand_hflip |-> TRUE,
   aug_scale_min |-> "1.0", aug_scale_max |-> "1.0",
   aug_rand_saturation |-> FALSE, aug_rand_brightness |-> FALSE,
   aug_rand_zoom |-> FALSE, aug_rand_hue |-> FALSE,
   channel_means |-> <<"104.01362025", "114.03422265", "119.9165958">>,
   channel_stds |-> <<"73.6027665", "69.89082075", "70.9150767">>]

TfExampleDecoder == [regenerate_source_id |-> FALSE]

TfExampleDecoderLabelMap == [regenerate_source_id |-> FALSE, label_map |-> ""]

DataDecoder ==
  [type |-> Some("simple_decoder"),
   simple_decoder |-> TfExampleDecoder,
   label_map_decoder |-> TfExampleDecoderLabelMap]

\* DataConfig(input_path=..., global_batch_size=..., is_training=...,
\*            shuffle_buffer_size=...): the other fields keep their defaults
DataConfig(input_path, global_batch_size, is_training, shuffle_buffer_size) ==
  [input_path |-> input_path,
   global_batch_size |-> global_batch_size,
   is_training |-> is_training,
   dtype |-> "float16",
   decoder |-> DataDecoder,
   parser |-> Parser,
   shuffle_buffer_size |-> shuffle_buffer_size,
   file_type |-> "tfrecord",
   drop_remainder |-> TRUE]

\* DataConfig(is_training=b)
DataConfigDefault(is_training) == DataConfig("", 32, is_training, 10000)

\* CenterNetModel(num_classes=n)
CenterNetModel(num_classes) ==
  [num_classes |-> num_classes,
   max_num_instances |-> 128,
   input_size |-> << >>,
   \* the fields of Backbone and NormActivation that this file sets
   backbone |-> [type |-> "hourglass", hourglass |-> [model_id |-> 52]],
   head |-> CenterNetHead,
   detection_generator |-> CenterNetDetectionGenerator,
   norm_activation |-> [norm_momentum |-> "0.9", norm_epsilon |-> "1e-5",
                        use_sync_bn |-> FALSE]]

\* CenterNetDetection(use_centers=a, use_corners=b, predict_3d=c)
CenterNetDetection(use_centers, use_corners, predict_3d) ==
  [use_centers |-> use_centers,
   use_corners |-> use_corners,
   predict_3d |-> predict_3d]

\* CenterNetSubTasks(detection=d); detection is the only declared field
CenterNetSubTasks(detection) == [detection |-> detection]

\* Variant: use_corners declared with the default True
TaskClassDefaults_corners ==
  [model |-> CenterNetModel(90),
   train_data |-> DataConfigDefault(TRUE),
   validation_data |-> DataConfigDefault(FALSE),
   subtasks |-> CenterNetSubTasks(Some(CenterNetDetection(TRUE, TRUE, FALSE))),
   losses |-> Losses]

\* The default instances evaluated once, in the class body of CenterNetTask
TaskClassDefaults ==
  [model |-> CenterNetModel(90),
   train_data |-> DataConfigDefault(TRUE),
   validation_data |-> DataConfigDefault(FALSE),
   subtasks |-> CenterNetSubTasks(Some(CenterNetDetection(TRUE, FALSE, FALSE))),
   losses |-> Losses]

\* The fields of CenterNetTask whose default is an instance, not a primitive
InstanceFields == {"model", "train_data", "validation_data", "subtasks", "losses"}

\* The value stored when a configuration record is assigned to a field.
\* Records are value objects: the field receives a private copy of v, never a
\* reference to the object that was passed (shared |-> FALSE).
ImportConfig(v) == [value |-> v, shared |-> FALSE]

\* The record of class CenterNetTask with the given instance fields and
\* annotation_file; the other primitive fields hold their declared defaults
\* (no constructor call of this file sets them)
TaskFields(model, train_data, validation_data, subtasks, losses, annotation_file) ==
  [model |-> model,
   train_data |-> train_data,
   validation_data |-> validation_data,
   subtasks |-> subtasks,
   losses |-> losses,
   gradient_clip_norm |-> "10.0",
   per_category_metrics |-> FALSE,
   weight_decay |-> "5e-4",
   init_checkpoint |-> None,
   init_checkpoint_modules |-> "all",
   init_checkpoint_source |-> "TFVision",
   annotation_file |-> annotation_file,
   checkpoint_backbone_name |-> "hourglass104_512",
   checkpoint_head_name |-> "detection_2d"]

\* The check a validating constructor would run on its detection sub-task
ValidDetection(subtasks) ==
  /\ subtasks.detection # None
  /\ subtasks.detection[1].use_centers
  /\ ~subtasks.detection[1].use_corners

\* Variant: a CenterNetTask that validates its sub-tasks when it is built
CenterNetTask_validating(defaults, args) ==
  LET given(f) == f \in DOMAIN args
      field(f) == ImportConfig(IF given(f) THEN args[f] ELSE defaults[f])
  IN [status |-> IF ValidDetection(field("subtasks").value)
                   THEN "returned" ELSE "AssertionError",
      shared |-> {f \in InstanceFields : ~given(f) /\ field(f).shared},
      value |->
        TaskFields(field("model").value, field("train_data").value,
                   field("validation_data").value, field("subtasks").value,
                   field("losses").value,
                   IF given("annotation_file") THEN args.annotation_file
                   ELSE None)]

\* Variant: a CenterNetTask declared as a plain dataclass, whose fields that
\* are not given hold the class-level default instance itself
CenterNetTask_plain(defaults, args) ==
  LET given(f) == f \in DOMAIN args
      field(f) == IF given(f) THEN args[f] ELSE defaults[f]
  IN [status |-> "returned",
      shared |-> {f \in InstanceFields : ~given(f)},
      value |->
        TaskFields(field("model"), field("train_data"),
                   field("validation_data"), field("subtasks"),
                   field("losses"),
                   IF given("annotation_file") THEN args.annotation_file
                   ELSE None)]

\* CenterNetTask(**args): args is a record holding the keyword arguments that
\* are given.  A field that is not given takes its class-level default; every
\* instance field goes through the field assignment.  No validation runs
\* here: the class declares no __post_init__.
\* The result names the fields that share the class-level default instance.
CenterNetTask(defaults, args) ==
  LET given(f) == f \in DOMAIN args
      field(f) == ImportConfig(IF given(f) THEN args[f] ELSE defaults[f])
  IN [status |-> "returned",
      shared |-> {f \in InstanceFields : ~given(f) /\ field(f).shared},
      value |->
        TaskFields(field("model").value, field("train_data").value,
                   field("validation_data").value, field("subtasks").value,
                   field("losses").value,
                   IF given("annotation_file") THEN args.annotation_file
                   ELSE None)]

\* ------------------------------------------------ get_output_length_dict
NoArgs == [x \in {} |-> TRUE]
EmptyDict == [x \in {} |-> 0]

Returned(d) == [status |-> "returned", msg |-> "", dict |-> Some(d)]
Raised(exc, msg) == [status |-> exc, msg |-> msg, dict |-> None]

\* lengths.update(d): the keys of d replace or extend those of lengths
update(lengths, d) == d @@ lengths

\* Attribute access on a record: the declared fields only
hasattr(obj, k) == k \in DOMAIN obj

\* Truth value of an Optional record: None is false, a record is true
truthy(opt) == opt # None

\* sub_task_check: the name of the attribute whose lookup raises, if one
\* does, and otherwise the value of the check.  `or` evaluates its operands
\* from the left and stops at the first true one.
sub_task_check(subtasks) ==
  IF subtasks.detection # None THEN [missing |-> None, value |-> TRUE]
  ELSE IF ~hasattr(subtasks, "kp_detection")
    THEN [missing |-> Some("kp_detection"), value |-> FALSE]
  ELSE IF subtasks["kp_detection"] THEN [missing |-> None, value |-> TRUE]
  ELSE IF ~hasattr(subtasks, "segmentation")
    THEN [missing |-> Some("segmentation"), value |-> FALSE]
  ELSE [missing |-> None, value |-> subtasks["segmentation"]]

\* Variant: `or` in place of `and`
detection_task_check_or(det) == det.use_centers \/ ~det.use_corners

detection_task_check(det) == det.use_centers /\ ~det.use_corners

\* Variant: ct_size is added when corners are used
lengths_ct_size_with_corners(self, det) ==
  LET l1 == IF det.use_centers
              THEN update(EmptyDict,
                          "ct_heatmaps" :> self.model.num_classes
                          @@ "ct_offset" :> 2)
              ELSE EmptyDict
      l2 == IF det.use_centers /\ det.use_corners
              THEN update(l1, "ct_size" :> 2)
              ELSE l1
  IN IF det.predict_3d
       THEN update(l2, "depth" :> 1 @@ "orientation" :> 8)
       ELSE l2

\* The dict built for the detection sub-task det
lengths(self, det) ==
  LET l1 == IF det.use_centers
              THEN update(EmptyDict,
                          "ct_heatmaps" :> self.model.num_classes
                          @@ "ct_offset" :> 2)
              ELSE EmptyDict
      l2 == IF det.use_centers /\ ~det.use_corners
              THEN update(l1, "ct_size" :> 2)
              ELSE l1
      l3 == IF det.use_corners
              THEN update(l2,
                          "tl_heatmaps" :> self.model.num_classes
                          @@ "tl_offset" :> 2
                          @@ "br_heatmaps" :> self.model.num_classes
                          @@ "br_offset" :> 2)
              ELSE l2
  IN IF det.predict_3d
       THEN update(l3, "depth" :> 1 @@ "orientation" :> 8)
       ELSE l3

\* The outcome of self.get_output_length_dict()
get_output_length_dict(self) ==
  LET check == sub_task_check(self.subtasks)
      detection == self.subtasks.detection
  IN IF check.missing # None
       THEN Raised("AttributeError", check.missing[1])
     ELSE IF ~check.value
       THEN Raised("AssertionError",
                   "You must specify at least one subtask to CenterNet")
     ELSE IF ~truthy(detection)
       THEN Returned(EmptyDict)
     ELSE IF ~detection_task_check(detection[1])
       THEN Raised("AssertionError", "Use corner is not supported currently.")
     ELSE Returned(lengths(self, detection[1]))

\* ----------------------------------------------- centernet_hourglass_coco
train_batch_size == 128
eval_batch_size == 8
\* Variant: the division uses the evaluation batch size
steps_per_epoch_eval == COCO_TRAIN_EXAMPLES \div eval_batch_size

steps_per_epoch == COCO_TRAIN_EXAMPLES \div train_batch_size

\* int(total * fraction), the fraction given in hundredths (0.65 is 65):
\* int truncates, and 500 * 0.65 and 500 * 0.85 are whole in floating point
\* Variant: int applied to the fraction before the product, int(0.65) * 500
int_scaled_early(total, hundredths) == total * (hundredths \div 100)

int_scaled(total, hundredths) == (total * hundredths) \div 100

\* base * train_batch_size / 128.0, base and result in units of 1e-6
learning_rate_value(base) == (base * train_batch_size) \div 128

\* cfg.TrainerConfig(...) as built by the factory
TrainerConfig ==
  [steps_per_loop |-> steps_per_epoch,
   summary_interval |-> steps_per_epoch,
   checkpoint_interval |-> steps_per_epoch,
   train_steps |-> 500 * steps_per_epoch,
   validation_steps |-> COCO_VAL_EXAMPLES \div eval_batch_size,
   validation_interval |-> steps_per_epoch,
   optimizer_config |->
     [optimizer |-> [type |-> "sgd", sgd |-> [momentum |-> "0.9"]],
      learning_rate |->
        [type |-> "stepwise",
         stepwise |->
           [boundaries |-> <<int_scaled(500, 65) * steps_per_epoch,
                             int_scaled(500, 85) * steps_per_epoch>>,
            values |-> <<learning_rate_value(1000),
                         learning_rate_value(10),
                         learning_rate_value(1)>>]],
      warmup |-> [type |-> "linear", linear |-> [warmup_steps |-> 2000]]]]

\* The outcome of centernet_hourglass_coco(): the experiment configuration,
\* built from the class-level defaults as they are at the call
centernet_hourglass_coco(defaults) ==
  LET task ==
        CenterNetTask(defaults,
          [annotation_file |->
             Some(path_join(COCO_INPUT_PATH_BASE, "instances_val2017.json")),
           model |-> CenterNetModel(90),
           train_data |->
             DataConfig(path_join(COCO_INPUT_PATH_BASE, "train*"),
                        train_batch_size, TRUE, 2),
           validation_data |->
             DataConfig(path_join(COCO_INPUT_PATH_BASE, "val*"),
                        eval_batch_size, FALSE, 2)])
      stored == ImportConfig(task.value)
  IN [status |-> task.status,
      shared |-> IF stored.shared THEN task.shared ELSE {},
      value |->
        [kind |-> "experiment",
         task |-> stored.value,
         trainer |-> TrainerConfig,
         restrictions |-> <<"task.train_data.is_training != None",
                            "task.validation_data.is_training != None">>]]

\* ------------------------------------------------------------------ state
VARIABLES
  classDefaults,  \* the default instances held by the class CenterNetTask
  recs,           \* the configuration record held by each variable of the caller
  shared,         \* per record: the fields that are the class-level default
                  \* instance itself rather than a copy of it
  ret,            \* the last operation and its outcome
  results,        \* every tree centernet_hourglass_coco has returned so far
  noverrides      \* number of field overrides performed

vars == <<classDefaults, recs, shared, ret, results, noverrides>>

NoRec == [kind |-> "none"]

\* The caller binds a new record to its next unused variable
Fresh(i) == recs[i] = NoRec /\ \A j \in 1..(i-1) : recs[j] # NoRec

Outcome(op, slot, r) ==
  [op |-> op, slot |-> slot, status |-> r.status, msg |-> r.msg,
   dict |-> r.dict]

Init ==
  /\ classDefaults = TaskClassDefaults
  /\ recs = [i \in Slots |-> NoRec]
  /\ shared = [i \in Slots |-> {}]
  /\ ret = Outcome("none", 0, Raised("none", ""))
  /\ results = {}
  /\ noverrides = 0

\* v = CenterNetTask()
NewTask(i) ==
  /\ Fresh(i)
  /\ LET r == CenterNetTask(classDefaults, NoArgs)
     IN /\ recs' = [recs EXCEPT ![i] = [kind |-> "task", task |-> r.value]]
        /\ shared' = [shared EXCEPT ![i] = r.shared]
        /\ ret' = Outcome("CenterNetTask", i, Raised(r.status, ""))
  /\ UNCHANGED <<classDefaults, results, noverrides>>

\* Variant: the factory keeps the experiment it built and returns that same
\* object on every later call
NewExperiment_cached(i) ==
  /\ Fresh(i)
  /\ LET r == centernet_hourglass_coco(classDefaults)
         built == {j \in Slots : recs[j].kind = "experiment"}
         value == IF built = {} THEN r.value
                  ELSE recs[CHOOSE j \in built : TRUE]
     IN /\ recs' = [recs EXCEPT ![i] = value]
        /\ shared' = [shared EXCEPT ![i] = r.shared]
        /\ ret' = Outcome("centernet_hourglass_coco", i, Raised(r.status, ""))
        /\ results' = results \cup {value}
  /\ UNCHANGED <<classDefaults, noverrides>>

\* v = centernet_hourglass_coco()
NewExperiment(i) ==
  /\ Fresh(i)
  /\ LET r == centernet_hourglass_coco(classDefaults)
     IN /\ recs' = [recs EXCEPT ![i] = r.value]
        /\ shared' = [shared EXCEPT ![i] = r.shared]
        /\ ret' = Outcome("centernet_hourglass_coco", i, Raised(r.status, ""))
        /\ results' = results \cup {r.value}
  /\ UNCHANGED <<classDefaults, noverrides>>

\* The store of a field override below the field f of the task of record i:
\* it changes the object that holds the field, hence every record that holds
\* that same object
Store(i, f, v) ==
  /\ recs' = [j \in Slots |->
                IF j = i \/ (f \in shared[i] /\ f \in shared[j])
                  THEN [recs[j] EXCEPT !.task[f] = v]
                  ELSE recs[j]]
  /\ classDefaults' = IF f \in shared[i]
                        THEN [classDefaults EXCEPT ![f] = v]
                        ELSE classDefaults

\* v.<path> = value, on a record or on the task of an experiment.  The
\* assignment validates nothing.
Override(i) ==
  /\ recs[i] # NoRec
  /\ noverrides < MaxOverrides
  /\ LET t == recs[i].task
     IN \/ \E flag \in {"use_centers", "use_corners", "predict_3d"},
              b \in BOOLEAN :
             \* subtasks.detection.<flag> = b; None has no field to override
             /\ t.subtasks.detection # None
             /\ Store(i, "subtasks",
                      [t.subtasks EXCEPT !.detection[1][flag] = b])
        \/ \E d \in {None, Some(CenterNetDetection(TRUE, FALSE, FALSE))} :
             \* subtasks.detection = None, = CenterNetDetection()
             Store(i, "subtasks", [t.subtasks EXCEPT !.detection = d])
        \/ \E n \in 1..MaxClasses :
             \* model.num_classes = n
             Store(i, "model", [t.model EXCEPT !.num_classes = n])
        \/ \* model.head.num_inputs = 1
           Store(i, "model", [t.model EXCEPT !.head.num_inputs = 1])
        \/ \* losses.class_offset = 0
           Store(i, "losses", [t.losses EXCEPT !.class_offset = 0])
  /\ noverrides' = noverrides + 1
  /\ ret' = Outcome("override", i, Raised("returned", ""))
  /\ UNCHANGED <<shared, results>>

\* Variant: the method clears predict_3d of the record after reading it
Call_clearing(i) ==
  /\ recs[i] # NoRec
  /\ ret' = Outcome("get_output_length_dict", i,
                    get_output_length_dict(recs[i].task))
  /\ recs' = IF recs[i].task.subtasks.detection = None THEN recs
             ELSE [recs EXCEPT
                     ![i].task.subtasks.detection[1].predict_3d = FALSE]
  /\ UNCHANGED <<classDefaults, shared, results, noverrides>>

\* v.get_output_length_dict(), v.task.get_output_length_dict() on an experiment
Call(i) ==
  /\ recs[i] # NoRec
  /\ ret' = Outcome("get_output_length_dict", i,
                    get_output_length_dict(recs[i].task))
  /\ UNCHANGED <<classDefaults, recs, shared, results, noverrides>>

Next ==
  \/ \E i \in Slots : NewTask(i)
  \/ \E i \in Slots : NewExperiment(i)
  \/ \E i \in Slots : Override(i)
  \/ \E i \in Slots : Call(i)

Spec == Init /\ [][Next]_vars

\* ------------------------------------------- get_output_length_dict alone
\* The inputs of get_output_length_dict: one record, built by
\*   CenterNetTask(model=CenterNetModel(num_classes=n),
\*                 subtasks=CenterNetSubTasks(detection=d))
\* for every d and for n among 90 and 1..MaxClasses; the caller then overrides
\* fields of it and calls the method.
DetectionValues ==
  {None} \cup {Some(CenterNetDetection(a, b, c)) : a, b, c \in BOOLEAN}

InitCall ==
  /\ classDefaults = TaskClassDefaults
  /\ \E n \in {90} \cup (1..MaxClasses), d \in DetectionValues :
       LET r == CenterNetTask(classDefaults,
                  [model |-> CenterNetModel(n),
                   subtasks |-> CenterNetSubTasks(d)])
       IN /\ recs = [i \in Slots |->
                       IF i = 1 THEN [kind |-> "task", task |-> r.value]
                       ELSE NoRec]
          /\ shared = [i \in Slots |-> IF i = 1 THEN r.shared ELSE {}]
          /\ ret = Outcome("CenterNetTaskWith", 1, Raised(r.status, ""))
  /\ results = {}
  /\ noverrides = 0

NextCall == Override(1) \/ Call(1)

SpecCall == InitCall /\ [][NextCall]_vars

\* ----------------------------------------------------------- properties
CalledOn(i) == ret.op = "get_output_length_dict" /\ ret.slot = i
DetectionOf(i) == recs[i].task.subtasks.detection

\* C1: on a task whose detection sub-task is set, get_output_length_dict
\* returns exactly when use_centers is true and use_corners is false, for
\* every predict_3d and num_classes; otherwise it raises an assertion failure
\* and returns no dict.
C1_ReturnsIffCentersOnly ==
  \A i \in Slots :
    (CalledOn(i) /\ DetectionOf(i) # None) =>
      LET det == DetectionOf(i)[1]
      IN /\ (ret.status = "returned") <=> (det.use_centers /\ ~det.use_corners)
         /\ (ret.status = "returned") => ret.dict # None
         /\ (ret.status # "returned") =>
              ret.status = "AssertionError" /\ ret.dict = None

C1_Witness ==
  /\ CalledOn(1)
  /\ DetectionOf(1) # None
  /\ DetectionOf(1)[1].use_centers
  /\ DetectionOf(1)[1].use_corners
  /\ DetectionOf(1)[1].predict_3d
  /\ recs[1].task.model.num_classes # 90
  /\ ret.status = "AssertionError"

\* C2: when subtasks.detection is None, get_output_length_dict raises an
\* assertion failure with the message of the sub-task check, and fails in no
\* other way.
C2_NoSubtaskAsserts ==
  \A i \in Slots :
    (CalledOn(i) /\ DetectionOf(i) = None) =>
      /\ ret.status = "AssertionError"
      /\ ret.msg = "You must specify at least one subtask to CenterNet"

\* C3: the experiment returned by centernet_hourglass_coco has train_steps
\* 500 * (118287 div 128) = 462000, the divisor being the value stored in
\* task.train_data.global_batch_size, 128.
C3_TrainSteps ==
  ret.op = "centernet_hourglass_coco" =>
    LET e == recs[ret.slot]
    IN /\ e.task.train_data.global_batch_size = 128
       /\ e.trainer.train_steps
            = 500 * (118287 \div e.task.train_data.global_batch_size)
       /\ e.trainer.train_steps = 500 * 924
       /\ e.trainer.train_steps = 462000

C3_Witness ==
  /\ ret.op = "centernet_hourglass_coco"
  /\ recs[ret.slot].kind = "experiment"
  /\ recs[ret.slot].trainer.train_steps = 462000
  /\ recs[ret.slot].task.train_data.is_training

C5_NoValidationOutsideCall ==
  /\ ret.op \in {"CenterNetTask", "CenterNetTaskWith",
                 "centernet_hourglass_coco", "override"}
       => ret.status = "returned"
  /\ ret.status = "AssertionError" => ret.op = "get_output_length_dict"

C5_Witness ==
  /\ ret.op = "override"
  /\ ret.status = "returned"
  /\ DetectionOf(1) # None
  /\ DetectionOf(1)[1].use_corners
  /\ ~DetectionOf(1)[1].use_centers

\* C6: CenterNetTask() holds the declared defaults (use_centers true,
\* use_corners false, predict_3d false, num_classes 90, train_data.is_training
\* true, validation_data.is_training false, both global_batch_size 32), and
\* get_output_length_dict called on it returns.
C6_DefaultTask ==
  /\ [](ret.op = "CenterNetTask" =>
          LET t == recs[ret.slot].task
          IN /\ t.subtasks.detection # None
             /\ t.subtasks.detection[1].use_centers = TRUE
             /\ t.subtasks.detection[1].use_corners = FALSE
             /\ t.subtasks.detection[1].predict_3d = FALSE
             /\ t.model.num_classes = 90
             /\ t.train_data.is_training = TRUE
             /\ t.validation_data.is_training = FALSE
             /\ t.train_data.global_batch_size = 32
             /\ t.validation_data.global_batch_size = 32)
  /\ [][(ret.op = "CenterNetTask" /\ ret'.op = "get_output_length_dict"
         /\ ret'.slot = ret.slot) => ret'.status = "returned"]_vars

C6_Witness ==
  /\ ret.op = "get_output_length_dict"
  /\ ret.status = "returned"
  /\ recs[ret.slot].kind = "task"
  /\ noverrides = 0

\* The values C7 requires of a record that was just built
DeclaredValues(t) ==
  /\ t.subtasks.detection = Some([use_centers |-> TRUE, use_corners |-> FALSE,
                                  predict_3d |-> FALSE])
  /\ t.model.num_classes = 90
  /\ t.model.head.num_inputs = 2
  /\ t.losses.class_offset = 1

C8_ReturnedDict ==
  \A i \in Slots :
    (CalledOn(i) /\ ret.status = "returned") =>
      LET d == ret.dict[1]
          t == recs[i].task
      IN /\ t.subtasks.detection # None
         /\ DOMAIN d = {"ct_heatmaps", "ct_offset", "ct_size"}
                       \cup (IF t.subtasks.detection[1].predict_3d
                               THEN {"depth", "orientation"} ELSE {})
         /\ d["ct_heatmaps"] = t.model.num_classes
         /\ d["ct_offset"] = 2
         /\ d["ct_size"] = 2
         /\ t.subtasks.detection[1].predict_3d =>
              d["depth"] = 1 /\ d["orientation"] = 8
         /\ DOMAIN d \cap {"tl_heatmaps", "tl_offset", "br_heatmaps",
                           "br_offset"} = {}

C8_Witness ==
  /\ CalledOn(1)
  /\ ret.status = "returned"
  /\ DetectionOf(1)[1].predict_3d
  /\ recs[1].task.model.num_classes # 90
  /\ "depth" \in DOMAIN ret.dict[1]

\* C9: get_output_length_dict changes no field of any record, whether it
\* returns or raises, and a second call on the unmodified record has the
\* outcome of the first.
C9_CallHasNoEffect ==
  [][ret'.op = "get_output_length_dict" =>
       /\ recs' = recs
       /\ classDefaults' = classDefaults
       /\ shared' = shared
       /\ (ret.op = "get_output_length_dict" /\ ret.slot = ret'.slot)
            => ret' = ret]_vars

C9_Witness ==
  /\ ret.op = "get_output_length_dict"
  /\ ret.status = "AssertionError"
  /\ DetectionOf(ret.slot)[1].predict_3d
  /\ noverrides > 0

\* C10: in the experiment returned by centernet_hourglass_coco the stepwise
\* boundaries are 325 * 924 = 300300 and 425 * 924 = 392700, increasing,
\* multiples of steps_per_epoch, below train_steps and above warmup_steps, and
\* there is one more learning-rate value than boundaries.
C10_Schedule ==
  ret.op = "centernet_hourglass_coco" =>
    LET tr == recs[ret.slot].trainer
        lr == tr.optimizer_config.learning_rate.stepwise
        warmup_steps == tr.optimizer_config.warmup.linear.warmup_steps
    IN /\ lr.boundaries = <<325 * 924, 425 * 924>>
       /\ lr.boundaries = <<300300, 392700>>
       /\ lr.boundaries[1] < lr.boundaries[2]
       /\ \A k \in 1..2 :
            /\ lr.boundaries[k] % 924 = 0
            /\ lr.boundaries[k] % tr.steps_per_loop = 0
            /\ lr.boundaries[k] < tr.train_steps
            /\ lr.boundaries[k] > warmup_steps
       /\ tr.train_steps = 462000
       /\ warmup_steps = 2000
       /\ Len(lr.values) = Len(lr.boundaries) + 1

C10_Witness ==
  /\ ret.op = "centernet_hourglass_coco"
  /\ recs[ret.slot].kind = "experiment"
  /\ Len(recs[ret.slot].trainer.optimizer_config.learning_rate.stepwise.values)
       = 3

====
